---- MODULE Spec2Model ----
(***************************************************************************)
(* Model of the "Git Apply From Clipboard" extension (src/extension.js):   *)
(* the script extractor, the heredoc/diff block extractor, the unified     *)
(* diff parser, the index-based patch applier and the command handler      *)
(* that falls back to forced overwrite when the external run fails.        *)
(*                                                                         *)
(* Texts are strings; a character is a string of length 1.  The regular    *)
(* expressions of the source are translated into position-based matchers   *)
(* that follow the backtracking order of the JavaScript regex engine.      *)
(***************************************************************************)
EXTENDS Integers, Sequences, FiniteSets, TLC

(***************************************************************************)
(* Characters and strings                                                  *)
(***************************************************************************)
NL == "\n"

Ch(s, i) == IF i >= 1 /\ i <= Len(s) THEN SubSeq(s, i, i) ELSE ""

From(s, p) == SubSeq(s, p, Len(s))

HasAt(s, p, lit) ==
    /\ p >= 1
    /\ p + Len(lit) - 1 <= Len(s)
    /\ SubSeq(s, p, p + Len(lit) - 1) = lit

\* \s of the regex engine and the characters String.prototype.trim removes
IsSpace(c) == c \in {" ", "\n", "\t", "\r"}

\* \d
IsDigit(c) == c \in {"0", "1", "2", "3", "4", "5", "6", "7", "8", "9"}

\* the characters '.' does not match
IsLineTerm(c) == c \in {"\n", "\r"}

DigitVal(c) ==
    CASE c = "0" -> 0 [] c = "1" -> 1 [] c = "2" -> 2 [] c = "3" -> 3
      [] c = "4" -> 4 [] c = "5" -> 5 [] c = "6" -> 6 [] c = "7" -> 7
      [] c = "8" -> 8 [] c = "9" -> 9

\* parseInt(s, 10) of a string of digits
RECURSIVE ParseIntFrom(_, _, _)
ParseIntFrom(s, i, acc) ==
    IF i > Len(s) THEN acc
    ELSE ParseIntFrom(s, i + 1, acc * 10 + DigitVal(Ch(s, i)))

parseInt(s) == ParseIntFrom(s, 1, 0)

\* the least and the greatest element of a set of positions, 0 when empty:
\* the scans of the regex engine and of indexOf take the first or the last
\* position that matches (a scan by recursion would nest as deep as the text
\* is long)
MinOrZero(S) == IF S = {} THEN 0 ELSE CHOOSE q \in S : \A r \in S : q <= r

MaxOrZero(S) == IF S = {} THEN 0 ELSE CHOOSE q \in S : \A r \in S : q >= r

\* String.prototype.indexOf(lit, p), 1-based; 0 when lit does not occur
IndexOf(s, lit, p) ==
    LET Here(q) == HasAt(s, q, lit)
    IN  MinOrZero({at \in p..Len(s) : Here(at)})

\* String.prototype.includes
Includes(s, lit) == IndexOf(s, lit, 1) # 0

\* first position >= p whose character is not matched by the class
\* (Len(s) + 1 when the class runs to the end): where a greedy \s* or \d*
\* started at p stops
SkipSpaces(s, p) ==
    LET Stop(q) == ~IsSpace(Ch(s, q))
    IN  IF p > Len(s) THEN p ELSE MinOrZero({at \in p..(Len(s) + 1) : Stop(at)})

SkipDigits(s, p) ==
    LET Stop(q) == ~IsDigit(Ch(s, q))
    IN  IF p > Len(s) THEN p ELSE MinOrZero({at \in p..(Len(s) + 1) : Stop(at)})

\* last position <= p whose character is not white space, 0 when none
LastNonSpace(s, p) ==
    LET Stop(q) == ~IsSpace(Ch(s, q))
    IN  MaxOrZero({at \in 1..p : Stop(at)})

\* String.prototype.trim
Trim(s) == SubSeq(s, SkipSpaces(s, 1), LastNonSpace(s, Len(s)))

\* String.prototype.split(sep) for a literal, non-empty separator
RECURSIVE Split(_, _)
Split(s, sep) ==
    LET Cut(q) == IF q = 0 THEN <<s>>
                  ELSE <<SubSeq(s, 1, q - 1)>> \o Split(From(s, q + Len(sep)), sep)
    IN  Cut(IndexOf(s, sep, 1))

\* Array.prototype.join(sep)
RECURSIVE Join(_, _)
Join(lines, sep) ==
    IF Len(lines) = 0 THEN ""
    ELSE IF Len(lines) = 1 THEN lines[1]
    ELSE lines[1] \o sep \o Join(Tail(lines), sep)

(***************************************************************************)
(* extractScriptFromClipboard                                              *)
(***************************************************************************)
\* rawText.replace(/\r\n/g, '\n')
RECURSIVE ReplaceCRLF(_)
ReplaceCRLF(s) ==
    LET Cut(q) == IF q = 0 THEN s
                  ELSE SubSeq(s, 1, q - 1) \o NL \o ReplaceCRLF(From(s, q + 2))
    IN  Cut(IndexOf(s, "\r\n", 1))

\* first position >= p holding a newline, Len(s) + 1 when there is none
LineEnd(s, p) ==
    LET Stop(q) == q > Len(s) \/ Ch(s, q) = NL
    IN  IF p > Len(s) THEN p ELSE MinOrZero({at \in p..(Len(s) + 1) : Stop(at)})

\* A TLA+ string cannot hold the backtick: "#" stands for it in every text
Backtick == "#"

Fence == Backtick \o Backtick \o Backtick

\* StripFence without the trim that ends it
StripFenceUntrimmed(txt) ==
    LET NoEnd(noTop, n) == IF HasAt(noTop, n - 2, Fence)
                           THEN SubSeq(noTop, 1, n - 3) ELSE noTop
        Top(e) == NoEnd(From(txt, IF e <= Len(txt) THEN e + 1 ELSE e),
                        Len(From(txt, IF e <= Len(txt) THEN e + 1 ELSE e)))
    IN  Top(LineEnd(txt, 4))

\* txt.replace(/^FENCE[^\n]*\n?/, '') followed by txt.replace(/FENCE$/, '') and trim
StripFence(txt) ==
    LET NoEnd(noTop, n) == IF HasAt(noTop, n - 2, Fence)
                           THEN SubSeq(noTop, 1, n - 3) ELSE noTop
        Bottom(noTop) == Trim(NoEnd(noTop, Len(noTop)))
        Top(e) == Bottom(From(txt, IF e <= Len(txt) THEN e + 1 ELSE e))
    IN  Top(LineEnd(txt, 4))

\* git\s+apply matched at q
GitApplyAt(s, q) ==
    /\ HasAt(s, q, "git")
    /\ LET r == SkipSpaces(s, q + 3)
       IN  r > q + 3 /\ HasAt(s, r, "apply")

\* \(cd[^\n]*git\s+apply matched at p
SubshellAt(s, p) ==
    /\ HasAt(s, p, "(cd")
    /\ \E q \in (p + 3)..LineEnd(s, p + 3) : GitApplyAt(s, q)

\* ^\s*git\s+apply matched at p, ^ under the m flag
BareApplyAt(s, p) ==
    /\ p = 1 \/ IsLineTerm(Ch(s, p - 1))
    /\ GitApplyAt(s, SkipSpaces(s, p))

\* start of the leftmost match of the invocation pattern, 0 when none
InvocationStart(s, p) ==
    LET Here(q) == SubshellAt(s, q) \/ BareApplyAt(s, q)
    IN  MinOrZero({at \in p..Len(s) : Here(at)})

extractScriptFromClipboard(rawText) ==
    IF rawText = "" THEN ""
    ELSE LET Cut(txt, m) == IF m # 0 THEN Trim(From(txt, m)) ELSE txt
             Match(txt) == Cut(txt, InvocationStart(txt, 1))
             Unfence(txt) == Match(IF HasAt(txt, 1, Fence) THEN StripFence(txt)
                                   ELSE txt)
         IN  Unfence(Trim(ReplaceCRLF(rawText)))

(***************************************************************************)
(* extractDiffBlocksFromScript                                             *)
(***************************************************************************)
SQuote == "'"

DQuote == "\""

IsQuote(c) == c \in {SQuote, DQuote}

NoMatch == [ok |-> FALSE, body |-> "", end |-> 0]

\* \s*\n([\s\S]*?)\nEOF with \s* starting at w0: the engine gives back the
\* white space it took one character at a time, so the newline it settles on
\* is the last one of the run after which a terminator is found
HeredocBody(s, wEnd, w0) ==
    LET Settles(n) == Ch(s, n) = NL /\ IndexOf(s, "\nEOF", n + 1) # 0
        Body(n, q) == [ok |-> TRUE, body |-> SubSeq(s, n + 1, q - 1), end |-> q + 4]
        At(n) == IF n = 0 THEN NoMatch ELSE Body(n, IndexOf(s, "\nEOF", n + 1))
    IN  At(MaxOrZero({at \in w0..wEnd : Settles(at)}))

\* /<<['"]?EOF['"]?\s*\n([\s\S]*?)\nEOF/ matched at p
HeredocAt(s, p) ==
    IF ~HasAt(s, p, "<<") THEN NoMatch
    ELSE LET a == IF IsQuote(Ch(s, p + 2)) THEN p + 3 ELSE p + 2
         IN  IF ~HasAt(s, a, "EOF") THEN NoMatch
             ELSE LET w0 == IF IsQuote(Ch(s, a + 3)) THEN a + 4 ELSE a + 3
                  IN  HeredocBody(s, SkipSpaces(s, w0) - 1, w0)

\* the exec loop of the g-flagged regex, from lastIndex
RECURSIVE HeredocBlocks(_, _)
HeredocBlocks(s, from) ==
    LET Here(p) == HeredocAt(s, p).ok
        Rest(m) == <<m.body>> \o HeredocBlocks(s, m.end)
        Step(p) == IF p = 0 THEN <<>> ELSE Rest(HeredocAt(s, p))
    IN  Step(MinOrZero({at \in from..Len(s) : Here(at)}))

extractDiffBlocksFromScript(scriptText) ==
    LET Fallback(blocks) ==
            IF Len(blocks) = 0 /\ Includes(scriptText, "diff --git")
            THEN <<scriptText>>
            ELSE blocks
    IN  Fallback(HeredocBlocks(scriptText, 1))

(***************************************************************************)
(* parseDiffToFileHunks                                                    *)
(***************************************************************************)
\* first position >= p holding a character '.' does not match
DotEnd(s, p) ==
    LET Stop(q) == q > Len(s) \/ IsLineTerm(Ch(s, q))
    IN  IF p > Len(s) THEN p ELSE MinOrZero({at \in p..(Len(s) + 1) : Stop(at)})

\* /^\s*diff --git a\/(.+?) b\/(.+?)\n/: the b/ path of the section, trimmed
HeaderMatch(section) ==
    LET Here(q) == HasAt(section, q, " b/")
        Path(p0, e, k) ==
            IF HasAt(section, p0, "diff --git a/") /\ Ch(section, e) = NL /\ k # 0
            THEN [ok |-> TRUE, bPath |-> Trim(SubSeq(section, k + 3, e - 1))]
            ELSE [ok |-> FALSE, bPath |-> ""]
        Line(p0, e) == Path(p0, e, MinOrZero({at \in (p0 + 14)..(e - 4) : Here(at)}))
        Start(p0) == Line(p0, DotEnd(section, p0 + 13))
    IN  Start(SkipSpaces(section, 1))

\* -(\d+)(?:,(\d+))? or \+(\d+)(?:,(\d+))? with the sign at p
RangeAt(s, p, sign) ==
    LET Both(d1, d2) ==
            IF Ch(s, p) # sign \/ d1 = p + 1 THEN [ok |-> FALSE]
            ELSE IF Ch(s, d1) = "," /\ d2 > d1 + 1
            THEN [ok |-> TRUE, start |-> SubSeq(s, p + 1, d1 - 1),
                  count |-> SubSeq(s, d1 + 1, d2 - 1), end |-> d2]
            ELSE [ok |-> TRUE, start |-> SubSeq(s, p + 1, d1 - 1),
                  count |-> "", end |-> d1]
        Start(d1) == Both(d1, SkipDigits(s, d1 + 1))
    IN  Start(SkipDigits(s, p + 1))

\* the lookahead (?=(\n@@|\n(?:diff --git|$))), $ without the m flag
HunkLookahead(s, q) ==
    \/ HasAt(s, q, "\n@@")
    \/ HasAt(s, q, "\ndiff --git")
    \/ (Ch(s, q) = NL /\ q = Len(s))

\* ([\s\S]*?) followed by the lookahead: the first q >= p where it holds
BodyEnd(s, p) ==
    LET Here(q) == HunkLookahead(s, q)
    IN  MinOrZero({at \in p..Len(s) : Here(at)})

\* the hunk regex matched at p
HunkAt(s, p) ==
    LET Body(old, new, w2, q) ==
            IF q = 0 THEN [ok |-> FALSE]
            ELSE [ok |-> TRUE, old |-> old, new |-> new,
                  body |-> SubSeq(s, w2 + 2, q - 1), end |-> q]
        Close(old, new, w2) ==
            IF w2 = new.end \/ ~HasAt(s, w2, "@@") THEN [ok |-> FALSE]
            ELSE Body(old, new, w2, BodyEnd(s, w2 + 2))
        New(old, w1, new) ==
            IF w1 = old.end \/ ~new.ok THEN [ok |-> FALSE]
            ELSE Close(old, new, SkipSpaces(s, new.end))
        Gap(old, w1) == New(old, w1, RangeAt(s, w1, "+"))
        Old(old) == IF ~old.ok THEN [ok |-> FALSE]
                    ELSE Gap(old, SkipSpaces(s, old.end))
    IN  IF ~HasAt(s, p, "@@") THEN [ok |-> FALSE]
        ELSE Old(RangeAt(s, SkipSpaces(s, p + 2), "-"))

\* the replacement lines of a hunk body
RECURSIVE KeptLines(_)
KeptLines(bodyLines) ==
    IF Len(bodyLines) = 0 THEN <<>>
    ELSE LET Keep(rawLine, firstChar) ==
                 IF Len(rawLine) = 0 THEN <<>>
                 ELSE IF firstChar = " " THEN <<From(rawLine, 2)>>
                 ELSE IF firstChar = "+" THEN <<From(rawLine, 2)>>
                 ELSE IF firstChar = "-" THEN <<>>
                 ELSE IF HasAt(rawLine, 1, "\\ No newline at end of file") THEN <<>>
                 ELSE <<rawLine>>
         IN  Keep(Head(bodyLines), Ch(Head(bodyLines), 1))
               \o KeptLines(Tail(bodyLines))

HunkOf(m) ==
    LET hunkBody  == m.body
        bodyLines == Split(IF HasAt(hunkBody, 1, NL) THEN From(hunkBody, 2)
                           ELSE hunkBody, NL)
    IN  [startOld |-> parseInt(m.old.start),
         countOld |-> IF m.old.count # "" THEN parseInt(m.old.count) ELSE 1,
         startNew |-> parseInt(m.new.start),
         countNew |-> IF m.new.count # "" THEN parseInt(m.new.count) ELSE 1,
         newLines |-> KeptLines(bodyLines)]

\* the exec loop of the hunk regex over one section, from lastIndex
RECURSIVE SectionHunks(_, _)
SectionHunks(section, from) ==
    LET Here(p) == HunkAt(section, p).ok
        Rest(m) == <<HunkOf(m)>> \o SectionHunks(section, m.end)
        Step(p) == IF p = 0 THEN <<>> ELSE Rest(HunkAt(section, p))
    IN  Step(MinOrZero({at \in from..Len(section) : Here(at)}))

\* fileHunks is kept as the sequence of its entries in insertion order
HasKey(fileHunks, path) == \E i \in 1..Len(fileHunks) : fileHunks[i].path = path

HunksOf(fileHunks, path) ==
    LET i == CHOOSE j \in 1..Len(fileHunks) : fileHunks[j].path = path
    IN  fileHunks[i].hunks

PushHunks(fileHunks, path, hs) ==
    IF HasKey(fileHunks, path)
    THEN [i \in 1..Len(fileHunks) |->
            IF fileHunks[i].path = path
            THEN [path |-> path, hunks |-> fileHunks[i].hunks \o hs]
            ELSE fileHunks[i]]
    ELSE Append(fileHunks, [path |-> path, hunks |-> hs])

RECURSIVE ParseSections(_, _, _)
ParseSections(fileSections, i, fileHunks) ==
    IF i > Len(fileSections) THEN fileHunks
    ELSE LET Section(raw, section, header) ==
                 IF Trim(raw) = "" \/ ~header.ok
                 THEN ParseSections(fileSections, i + 1, fileHunks)
                 ELSE ParseSections(fileSections, i + 1,
                        PushHunks(fileHunks, header.bPath, SectionHunks(section, 1)))
             Raw(raw, section) == Section(raw, section, HeaderMatch(section))
         IN  Raw(fileSections[i],
                 IF i > 1 THEN "diff --git " \o fileSections[i] ELSE fileSections[i])

parseDiffToFileHunks(diffText) ==
    ParseSections(Split(diffText, "\ndiff --git "), 1, <<>>)

(***************************************************************************)
(* Property enumeration order of for (const relPath in fileHunksMap):      *)
(* integer-like keys in ascending numeric order, then the other keys in    *)
(* insertion order.  Keys of up to MaxIndexDigits digits are compared by   *)
(* value; longer all-digit names do not occur in the inputs of the model.  *)
(***************************************************************************)
MaxIndexDigits == 9

IsArrayIndex(key) ==
    /\ Len(key) \in 1..MaxIndexDigits
    /\ SkipDigits(key, 1) = Len(key) + 1
    /\ (key = "0" \/ Ch(key, 1) # "0")

\* insert an entry into a sequence sorted ascending by numeric key
RECURSIVE InsertByIndex(_, _)
InsertByIndex(sorted, e) ==
    IF Len(sorted) = 0 THEN <<e>>
    ELSE IF parseInt(e.path) < parseInt(Head(sorted).path) THEN <<e>> \o sorted
    ELSE <<Head(sorted)>> \o InsertByIndex(Tail(sorted), e)

RECURSIVE IndexKeys(_)
IndexKeys(fileHunks) ==
    IF Len(fileHunks) = 0 THEN <<>>
    ELSE IF IsArrayIndex(Head(fileHunks).path)
    THEN InsertByIndex(IndexKeys(Tail(fileHunks)), Head(fileHunks))
    ELSE IndexKeys(Tail(fileHunks))

RECURSIVE NamedKeys(_)
NamedKeys(fileHunks) ==
    IF Len(fileHunks) = 0 THEN <<>>
    ELSE IF IsArrayIndex(Head(fileHunks).path) THEN NamedKeys(Tail(fileHunks))
    ELSE <<Head(fileHunks)>> \o NamedKeys(Tail(fileHunks))

ForIn(fileHunks) == IndexKeys(fileHunks) \o NamedKeys(fileHunks)

ParsedInKeyOrder(diffText) == ForIn(parseDiffToFileHunks(diffText))

(***************************************************************************)
(* The file system: the regular files with their content, the directories, *)
(* and the paths on which a read or a write is refused.                    *)
(***************************************************************************)
VARIABLES
    files,        \* absolute path -> content, for the regular files
    dirs,         \* the directories that exist
    unreadable,   \* paths whose readFileSync fails although the file exists
    unwritable    \* paths whose writeFileSync fails

\* path.normalize of an absolute POSIX path given by its segments
RECURSIVE NormalizeSegs(_, _)
NormalizeSegs(segs, acc) ==
    IF Len(segs) = 0 THEN acc
    ELSE LET seg == Head(segs)
         IN  IF seg = "" \/ seg = "." THEN NormalizeSegs(Tail(segs), acc)
             ELSE IF seg = ".."
             THEN NormalizeSegs(Tail(segs),
                    IF Len(acc) = 0 THEN acc ELSE SubSeq(acc, 1, Len(acc) - 1))
             ELSE NormalizeSegs(Tail(segs), Append(acc, seg))

\* path.join(cwd, rel) for an absolute cwd
PathJoin(cwd, rel) ==
    LET Body(joined, segs) ==
            IF Len(segs) > 0 /\ Ch(joined, Len(joined)) = "/"
            THEN "/" \o Join(segs, "/") \o "/"
            ELSE "/" \o Join(segs, "/")
        Joined(joined) == Body(joined, NormalizeSegs(Split(joined, "/"), <<>>))
    IN  Joined(cwd \o "/" \o rel)

\* path.dirname of an absolute path
Dirname(path) ==
    LET Parent(segs) == IF Len(segs) <= 1 THEN "/"
                        ELSE "/" \o Join(SubSeq(segs, 1, Len(segs) - 1), "/")
    IN  Parent(NormalizeSegs(Split(path, "/"), <<>>))

\* the directory and all the directories above it
RECURSIVE Ancestors(_)
Ancestors(dir) ==
    IF dir = "/" THEN {"/"} ELSE {dir} \cup Ancestors(Dirname(dir))

\* fs.readFileSync(path, 'utf8') succeeds
CanRead(fileMap, path) ==
    /\ path \in DOMAIN fileMap
    /\ path \notin unreadable

\* fs.mkdirSync(dir, {recursive: true}) succeeds: no regular file in the way
CanMkdir(fileMap, dir) == Ancestors(dir) \cap DOMAIN fileMap = {}

\* fs.writeFileSync(path, ...) succeeds
CanWrite(dirSet, path) ==
    /\ path \notin unwritable
    /\ path \notin dirSet
    /\ Ch(path, Len(path)) # "/"

WriteFile(fileMap, path, content) ==
    [q \in DOMAIN fileMap \cup {path} |->
        IF q = path THEN content ELSE fileMap[q]]

(***************************************************************************)
(* applyHunksToFileAbs                                                     *)
(***************************************************************************)
\* The two comparators: (a, b) => a.startNew - b.startNew is positive when a
\* sorts after b; (a, b) => b.startOld - a.startOld likewise
SortsAfter(a, b, byStartNew) ==
    IF byStartNew THEN a.startNew - b.startNew > 0
    ELSE b.startOld - a.startOld > 0

\* Array.prototype.sort with a comparator is stable: an element goes before
\* the first one that sorts after it
RECURSIVE InsertStable(_, _, _)
InsertStable(sorted, h, byStartNew) ==
    IF Len(sorted) = 0 THEN <<h>>
    ELSE IF SortsAfter(Head(sorted), h, byStartNew) THEN <<h>> \o sorted
    ELSE <<Head(sorted)>> \o InsertStable(Tail(sorted), h, byStartNew)

RECURSIVE SortStable(_, _, _)
SortStable(hunks, n, byStartNew) ==
    IF n = 0 THEN <<>>
    ELSE InsertStable(SortStable(hunks, n - 1, byStartNew), hunks[n], byStartNew)

\* the list as it is, not sorted
Unsorted(hunks) == hunks

\* the sort on startOld with its comparator the other way round: ascending
SortByStartOldAsc(hunks) ==
    LET Back(sorted) == [i \in 1..Len(sorted) |-> sorted[Len(sorted) + 1 - i]]
    IN  Back(SortStable(hunks, Len(hunks), FALSE))

\* [...hunks].sort((a, b) => a.startNew - b.startNew)
SortByStartNewAsc(hunks) == SortStable(hunks, Len(hunks), TRUE)

\* [...hunks].sort((a, b) => b.startOld - a.startOld)
SortByStartOldDesc(hunks) == SortStable(hunks, Len(hunks), FALSE)

RECURSIVE Synthetic(_)
Synthetic(sortedHunksNew) ==
    IF Len(sortedHunksNew) = 0 THEN <<>>
    ELSE Head(sortedHunksNew).newLines \o Synthetic(Tail(sortedHunksNew))

\* while (fileLines.length < removeStart) fileLines.push('')
Pad(fileLines, removeStart) ==
    [i \in 1..(IF Len(fileLines) < removeStart THEN removeStart ELSE Len(fileLines))
        |-> IF i <= Len(fileLines) THEN fileLines[i] ELSE ""]

\* fileLines.splice(start, deleteCount, ...items)
Splice(fileLines, start, deleteCount, items) ==
    LET len     == Len(fileLines)
        from    == IF start > len THEN len ELSE start
        removed == IF deleteCount > len - from THEN len - from ELSE deleteCount
    IN  SubSeq(fileLines, 1, from) \o items
          \o SubSeq(fileLines, from + removed + 1, len)

\* one iteration of the loop over sortedHunksOld
SpliceHunk(fileLines, h) ==
    LET removeStart == IF h.startOld - 1 > 0 THEN h.startOld - 1 ELSE 0
        removeCount == h.countOld
        replacement == h.newLines
    IN  Splice(Pad(fileLines, removeStart), removeStart, removeCount, replacement)

RECURSIVE SpliceAll(_, _)
SpliceAll(fileLines, sortedHunksOld) ==
    IF Len(sortedHunksOld) = 0 THEN fileLines
    ELSE SpliceAll(SpliceHunk(fileLines, Head(sortedHunksOld)),
                   Tail(sortedHunksOld))

\* the lines the function writes, from the result of the read
NewFileLines(fileExists, content, hunks) ==
    IF ~fileExists THEN Synthetic(SortByStartNewAsc(hunks))
    ELSE SpliceAll(Split(content, NL), SortByStartOldDesc(hunks))

\* the function on a file system state: the state it leaves and whether it
\* threw (only mkdirSync and writeFileSync can throw: the read is in a try)
applyHunksToFileAbs(fileMap, dirSet, pathOnDisk, hunks) ==
    LET Read(fileExists) ==
            NewFileLines(fileExists,
                         IF fileExists THEN fileMap[pathOnDisk] ELSE "", hunks)
        Write(dir, made, fileLines) ==
            IF ~CanMkdir(fileMap, dir)
            THEN [threw |-> TRUE, err |-> "EEXIST " \o dir,
                  files |-> fileMap, dirs |-> dirSet]
            ELSE IF ~CanWrite(dirSet \cup made, pathOnDisk)
            THEN [threw |-> TRUE, err |-> "EACCES " \o pathOnDisk,
                  files |-> fileMap, dirs |-> dirSet \cup made]
            ELSE [threw |-> FALSE, err |-> "",
                  files |-> WriteFile(fileMap, pathOnDisk, Join(fileLines, NL)),
                  dirs |-> dirSet \cup made]
        Mkdir(dir, fileLines) == Write(dir, Ancestors(dir), fileLines)
    IN  Mkdir(Dirname(pathOnDisk), Read(CanRead(fileMap, pathOnDisk)))

(***************************************************************************)
(* forceOverwriteFromScript                                                *)
(***************************************************************************)
\* relPath.replace(/^b\//, '').replace(/^a\//, '')
StripSide(relPath) ==
    LET NoA(noB) == IF HasAt(noB, 1, "a/") THEN From(noB, 3) ELSE noB
    IN  NoA(IF HasAt(relPath, 1, "b/") THEN From(relPath, 3) ELSE relPath)

NoBlocksError == "No diff blocks found in clipboard script for force overwrite."

\* The state threaded through the function: the file system, whether an
\* exception is propagating, and the log of the calls of applyHunksToFileAbs
\* (attempted: the path of every call; written: the path and the content
\* written of the calls that returned)
ForceStart(fileMap, dirSet) ==
    [threw |-> FALSE, err |-> "", files |-> fileMap, dirs |-> dirSet,
     attempted |-> <<>>, written |-> <<>>]

\* for (const relPath in fileHunksMap) { ... applyHunksToFileAbs(...) }
RECURSIVE ForceFiles(_, _, _, _)
ForceFiles(entries, i, cwd, st) ==
    IF i > Len(entries) \/ st.threw THEN st
    ELSE LET Applied(absPath, r) ==
                 ForceFiles(entries, i + 1, cwd,
                   [threw |-> r.threw, err |-> r.err,
                    files |-> r.files, dirs |-> r.dirs,
                    attempted |-> Append(st.attempted, absPath),
                    written |-> IF r.threw THEN st.written
                                ELSE Append(st.written,
                                       [path |-> absPath,
                                        content |-> r.files[absPath]])])
             Apply(absPath) ==
                 Applied(absPath, applyHunksToFileAbs(st.files, st.dirs, absPath,
                                                      entries[i].hunks))
         IN  Apply(PathJoin(cwd, StripSide(entries[i].path)))

\* for (const diffText of diffBlocks) { ... }
RECURSIVE ForceBlocks(_, _, _, _)
ForceBlocks(diffBlocks, k, cwd, st) ==
    IF k > Len(diffBlocks) \/ st.threw THEN st
    ELSE ForceBlocks(diffBlocks, k + 1, cwd,
           ForceFiles(ForIn(parseDiffToFileHunks(diffBlocks[k])), 1, cwd, st))

\* the function with a catch around the loop that drops the exception
forceOverwriteSwallowing(clipScript, cwd, fileMap, dirSet) ==
    LET Quiet(st) == [st EXCEPT !.threw = FALSE, !.err = ""]
        Blocks(diffBlocks) ==
            IF Len(diffBlocks) = 0
            THEN [ForceStart(fileMap, dirSet) EXCEPT
                    !.threw = TRUE, !.err = NoBlocksError]
            ELSE Quiet(ForceBlocks(diffBlocks, 1, cwd, ForceStart(fileMap, dirSet)))
    IN  Blocks(extractDiffBlocksFromScript(clipScript))

forceOverwriteFromScript(clipScript, cwd, fileMap, dirSet) ==
    LET Blocks(diffBlocks) ==
            IF Len(diffBlocks) = 0
            THEN [ForceStart(fileMap, dirSet) EXCEPT
                    !.threw = TRUE, !.err = NoBlocksError]
            ELSE ForceBlocks(diffBlocks, 1, cwd, ForceStart(fileMap, dirSet))
    IN  Blocks(extractDiffBlocksFromScript(clipScript))

(***************************************************************************)
(* /\bgit\s+apply\b/i                                                      *)
(***************************************************************************)
Letters ==
    {"a", "b", "c", "d", "e", "f", "g", "h", "i", "j", "k", "l", "m",
     "n", "o", "p", "q", "r", "s", "t", "u", "v", "w", "x", "y", "z",
     "A", "B", "C", "D", "E", "F", "G", "H", "I", "J", "K", "L", "M",
     "N", "O", "P", "Q", "R", "S", "T", "U", "V", "W", "X", "Y", "Z"}

\* \w
IsWordChar(c) == c \in Letters \/ IsDigit(c) \/ c = "_"

\* \b between positions p - 1 and p
WordBoundary(s, p) == IsWordChar(Ch(s, p - 1)) # IsWordChar(Ch(s, p))

UpperOf(c) ==
    CASE c = "g" -> "G" [] c = "i" -> "I" [] c = "t" -> "T" [] c = "a" -> "A"
      [] c = "p" -> "P" [] c = "l" -> "L" [] c = "y" -> "Y"

\* lit (lower case letters of "git apply") matched at p under the i flag
HasAtIgnoreCase(s, p, lit) ==
    /\ p >= 1
    /\ p + Len(lit) - 1 <= Len(s)
    /\ \A i \in 1..Len(lit) :
         Ch(s, p + i - 1) \in {Ch(lit, i), UpperOf(Ch(lit, i))}

containsGitApply(clipScript) ==
    \E q \in 1..Len(clipScript) :
        /\ WordBoundary(clipScript, q)
        /\ HasAtIgnoreCase(clipScript, q, "git")
        /\ LET r == SkipSpaces(clipScript, q + 3)
           IN  /\ r > q + 3
               /\ HasAtIgnoreCase(clipScript, r, "apply")
               /\ WordBoundary(clipScript, r + 5)

(***************************************************************************)
(* parseDiffToFileHunks and applyHunksToFileAbs called on their own: the    *)
(* arguments and the results of the calls                                  *)
(***************************************************************************)
VARIABLES
    diffDesc,   \* the description diffText was written from
    diffText,   \* the argument of parseDiffToFileHunks
    parsed,     \* the results of parseDiffToFileHunks, one per call
    oldLines,   \* the lines of the patched file before the first call
    hunkList,   \* the hunks argument of applyHunksToFileAbs
    calls,      \* per call of applyHunksToFileAbs: did it throw, the content left
    target      \* the pathOnDisk argument of applyHunksToFileAbs

(***************************************************************************)
(* extractScriptFromClipboard and extractDiffBlocksFromScript called on    *)
(* their own                                                               *)
(***************************************************************************)
VARIABLES
    rawDesc,    \* the description rawText was written from
    rawText,    \* the argument of extractScriptFromClipboard
    extracted,  \* the result of extractScriptFromClipboard(rawText), once called
    unfenced,   \* the result on the text the fence of rawText encloses
    blocks      \* the result of extractDiffBlocksFromScript on extracted

extractor == <<rawDesc, rawText, extracted, unfenced, blocks>>

alone == <<diffDesc, diffText, parsed, oldLines, hunkList, calls, target,
           extractor>>

(***************************************************************************)
(* The command handler of gitApplyFromClipboard.run                        *)
(***************************************************************************)
VARIABLES
    clipboard,       \* the text vscode.env.clipboard.readText() returns
    workspaceOpen,   \* vscode.workspace.workspaceFolders is not empty
    autoReset,       \* configuration autoResetOnApply
    forceOverwrite,  \* configuration forceOverwriteOnConflict
    pc,              \* where the handler is: idle, ask, reset, shell, done
    clipScript,      \* the script extracted from the clipboard
    shellResult,     \* "" until runShellCommand(clipScript) returns, then
                     \* "resolved" or the message of firstErr
    messages,        \* the notifications shown, in order
    trail,           \* the orchestrator states the invocation went through
    forceLog,        \* what forceOverwriteFromScript did, when it was called
    filesBefore,     \* the files as the external run left them
    scenario         \* the description the clipboard text was written from

Cwd == "/w"

Msg(level, text) == [level |-> level, text |-> text]

NoForce == [called |-> FALSE, threw |-> FALSE, err |-> "",
            attempted |-> <<>>, written |-> <<>>]

\* the outer catch, line 394
FailurePrefix == "Git apply / overwrite failed: "

\* the errors the external run can be rejected with
ShellErrors == {"error: patch does not apply", "Command failed with exit code 1"}

\* lines 362-369: the configuration is read, then the reset or the run starts
StartRun ==
    IF autoReset
    THEN /\ pc' = "reset"
         /\ UNCHANGED trail
    ELSE /\ pc' = "shell"
         /\ trail' = <<"Pending">>

\* the handler up to its first suspension
RunApply ==
    /\ pc = "idle"
    /\ LET Extracted(script) ==
           /\ clipScript' = (IF workspaceOpen THEN script ELSE "")
           /\ IF ~workspaceOpen
              THEN /\ messages' = Append(messages,
                        Msg("error", "Open a folder or workspace first to run git apply."))
                   /\ pc' = "done"
                   /\ UNCHANGED trail
              ELSE IF script = ""
              THEN /\ messages' = Append(messages,
                        Msg("warning", "Clipboard is empty or did not contain a runnable script."))
                   /\ pc' = "done"
                   /\ UNCHANGED trail
              ELSE IF ~containsGitApply(script)
              THEN /\ pc' = "ask"
                   /\ UNCHANGED <<messages, trail>>
              ELSE /\ StartRun
                   /\ UNCHANGED messages
       IN  Extracted(extractScriptFromClipboard(clipboard))
    /\ UNCHANGED <<files, dirs, unreadable, unwritable, clipboard, workspaceOpen,
                   autoReset, forceOverwrite, shellResult, forceLog, filesBefore,
                   scenario, alone>>

\* the answer to the warning 'Clipboard does not contain a "git apply" command.'
Choice ==
    /\ pc = "ask"
    /\ \E choice \in {"Run anyway", "Cancel", "dismissed"} :
         IF choice # "Run anyway"
         THEN pc' = "done" /\ UNCHANGED trail
         ELSE StartRun
    /\ UNCHANGED <<files, dirs, unreadable, unwritable, clipboard, workspaceOpen,
                   autoReset, forceOverwrite, clipScript, shellResult, messages,
                   forceLog, filesBefore, scenario, alone>>

\* runRepoRootHardReset resolved
ResetResolve ==
    /\ pc = "reset"
    /\ pc' = "shell"
    /\ trail' = <<"Pending">>
    /\ UNCHANGED <<files, dirs, unreadable, unwritable, clipboard, workspaceOpen,
                   autoReset, forceOverwrite, clipScript, shellResult, messages,
                   forceLog, filesBefore, scenario, alone>>

\* runRepoRootHardReset rejected: the outer catch reports it
ResetReject ==
    /\ pc = "reset"
    /\ \E err \in ShellErrors :
         messages' = Append(messages,
                        Msg("error", FailurePrefix \o err))
    /\ pc' = "done"
    /\ trail' = <<"Failed">>
    /\ UNCHANGED <<files, dirs, unreadable, unwritable, clipboard, workspaceOpen,
                   autoReset, forceOverwrite, clipScript, shellResult, forceLog,
                   filesBefore, scenario, alone>>

\* What the external run may have done to the working tree before it
\* returned: nothing, or rewritten a file (the script is opaque to the
\* handler, which only sees whether it resolved or rejected)
TouchedPath == "/w/x"

ExternalTrees(fileMap) == {fileMap, WriteFile(fileMap, TouchedPath, "ext")}

\* the resolved branch without its notification
ShellResolveSilent ==
    /\ pc = "shell"
    /\ \E tree \in ExternalTrees(files) :
         /\ files' = tree
         /\ filesBefore' = tree
    /\ shellResult' = "resolved"
    /\ trail' = Append(trail, "CleanSuccess")
    /\ pc' = "done"
    /\ UNCHANGED <<dirs, unreadable, unwritable, clipboard, workspaceOpen,
                   autoReset, forceOverwrite, clipScript, messages, forceLog,
                   scenario, alone>>

\* runShellCommand resolved: lines 373-375
ShellResolve ==
    /\ pc = "shell"
    /\ \E tree \in ExternalTrees(files) :
         /\ files' = tree
         /\ filesBefore' = tree
    /\ shellResult' = "resolved"
    /\ messages' = Append(messages, Msg("info", "Git apply completed."))
    /\ trail' = Append(trail, "CleanSuccess")
    /\ pc' = "done"
    /\ UNCHANGED <<dirs, unreadable, unwritable, clipboard, workspaceOpen,
                   autoReset, forceOverwrite, clipScript, forceLog, scenario,
                   alone>>

\* the flag tested after the files were rewritten instead of before
RethrowAfterForce(tree, firstErr) ==
    LET Forced(r) ==
            /\ files' = r.files
            /\ dirs' = r.dirs
            /\ forceLog' = [called |-> TRUE, threw |-> r.threw,
                            err |-> r.err, attempted |-> r.attempted,
                            written |-> r.written]
            /\ messages' = Append(messages,
                 Msg("error", FailurePrefix \o firstErr))
            /\ trail' = Append(trail, "Failed")
    IN  Forced(forceOverwriteFromScript(clipScript, Cwd, tree, dirs))

\* throw firstErr (line 379) into the outer catch (lines 393-395)
Rethrow(tree, firstErr) ==
    /\ messages' = Append(messages,
         Msg("error", FailurePrefix \o firstErr))
    /\ trail' = Append(trail, "Failed")
    /\ files' = tree
    /\ UNCHANGED <<dirs, forceLog>>

\* the force-overwrite fallback, lines 383-395: it is synchronous, so the
\* whole of forceOverwriteFromScript is part of the step
ForceFallback(tree) ==
    LET Forced(r) ==
            /\ files' = r.files
            /\ dirs' = r.dirs
            /\ forceLog' = [called |-> TRUE, threw |-> r.threw,
                            err |-> r.err, attempted |-> r.attempted,
                            written |-> r.written]
            /\ messages' = Append(messages,
                 IF r.threw
                 THEN Msg("error", FailurePrefix \o r.err)
                 ELSE Msg("info",
                        "Force overwrite completed (files were directly rewritten, no .rej)."))
            /\ trail' = trail \o <<"AttemptingForced",
                          IF r.threw THEN "Failed" ELSE "ForcedSuccess">>
    IN  Forced(forceOverwriteFromScript(clipScript, Cwd, tree, dirs))

\* the catch without the test of forceOverwrite
ShellRejectForcing ==
    /\ pc = "shell"
    /\ \E tree \in ExternalTrees(files), firstErr \in ShellErrors :
         /\ filesBefore' = tree
         /\ shellResult' = firstErr
         /\ ForceFallback(tree)
    /\ pc' = "done"
    /\ UNCHANGED <<unreadable, unwritable, clipboard, workspaceOpen, autoReset,
                   forceOverwrite, clipScript, scenario, alone>>

\* runShellCommand rejected with firstErr: lines 376-395
ShellReject ==
    /\ pc = "shell"
    /\ \E tree \in ExternalTrees(files), firstErr \in ShellErrors :
         /\ filesBefore' = tree
         /\ shellResult' = firstErr
         /\ IF ~forceOverwrite THEN Rethrow(tree, firstErr)
            ELSE ForceFallback(tree)
    /\ pc' = "done"
    /\ UNCHANGED <<unreadable, unwritable, clipboard, workspaceOpen, autoReset,
                   forceOverwrite, clipScript, scenario, alone>>

(***************************************************************************)
(* The inputs.  A clipboard text is written from a description: the file   *)
(* sections of a unified diff (each with the old side of its file and its  *)
(* hunks), how the diff is wrapped in a script, and whether a blank line   *)
(* follows the last diff line.  The description gives the old and the new  *)
(* side of every file the way a diff tool defines them, independently of   *)
(* the parser and the applier above.                                       *)
(***************************************************************************)
Digits == <<"1", "2", "3", "4", "5", "6", "7", "8", "9">>

RECURSIVE NumStr(_)
NumStr(n) ==
    IF n = 0 THEN "0"
    ELSE IF n < 10 THEN Digits[n]
    ELSE NumStr(n \div 10) \o (IF n % 10 = 0 THEN "0" ELSE Digits[n % 10])

RangeStr(start, count, bare) ==
    IF bare THEN NumStr(start) ELSE NumStr(start) \o "," \o NumStr(count)

\* a hunk as git writes it: the header (with the counts left out when bare),
\* the heading after the closing @@, and the body lines
RenderHunk(h) ==
    Join(<<"@@ -" \o RangeStr(h.startOld, h.countOld, h.bare)
             \o " +" \o RangeStr(h.startNew, h.countNew, h.bare)
             \o " @@" \o h.heading>> \o h.body, NL)

RenderSection(sec) ==
    Join(<<"diff --git a/" \o sec.path \o " b/" \o sec.path,
           "--- a/" \o sec.path,
           "+++ b/" \o sec.path>>
         \o [i \in 1..Len(sec.hunks) |-> RenderHunk(sec.hunks[i])], NL)

RenderDiff(sections) ==
    Join([i \in 1..Len(sections) |-> RenderSection(sections[i])], NL)

H(startOld, countOld, startNew, countNew, body, bare) ==
    [startOld |-> startOld, countOld |-> countOld, startNew |-> startNew,
     countNew |-> countNew, body |-> body, bare |-> bare, heading |-> ""]

Sec(path, exists, old, hunks) ==
    [path |-> path, exists |-> exists, old |-> old, hunks |-> hunks]

\* x: one hunk that replaces the first of two lines
SecOne == Sec("x", TRUE, <<"old", "line2">>,
              <<H(1, 2, 1, 2, <<"-old", "+new", " line2">>, FALSE)>>)

\* d/y: a new file of two lines in a directory that does not exist yet
SecNew == Sec("d/y", FALSE, <<>>,
              <<H(0, 0, 1, 2, <<"+p", "+q">>, FALSE)>>)

\* x: two one-line hunks whose headers leave the counts out
SecTwo == Sec("x", TRUE, <<"a", "b", "c", "d">>,
              <<H(1, 1, 1, 1, <<"-a", "+A">>, TRUE),
                H(4, 1, 4, 1, <<"-d", "+D">>, TRUE)>>)

\* x: a line inserted after line 1, without context
SecIns == Sec("x", TRUE, <<"a", "b">>,
              <<H(1, 0, 2, 1, <<"+n">>, FALSE)>>)

\* ../e: a new file whose path leaves the working directory
SecUp == Sec("../e", FALSE, <<>>,
             <<H(0, 0, 1, 1, <<"+e">>, FALSE)>>)

\* z: one hunk on a second file
SecZed == Sec("z", TRUE, <<"k">>,
              <<H(1, 1, 1, 1, <<"-k", "+K">>, FALSE)>>)

\* x: a section with no hunk
SecNone == Sec("x", TRUE, <<"old", "line2">>, <<>>)

Diffs ==
    {<<SecOne>>, <<SecNew>>, <<SecTwo>>, <<SecIns>>, <<SecUp>>, <<SecNone>>,
     <<SecOne, SecZed>>, <<SecZed, SecNew>>, <<SecTwo, SecZed>>}

Wraps == {"heredoc", "subshell", "bare"}

\* scripts that carry no parsable diff
RawTexts ==
    {"", "echo hi", "git apply p.diff",
     "git apply <<'EOF'\nhello\nEOF", "git apply <<'EOF'\n\nEOF"}

Scenarios ==
    [kind : {"diff"}, wrap : Wraps, sections : Diffs, blankLine : BOOLEAN,
     text : {""}]
    \cup [kind : {"raw"}, wrap : {"bare"}, sections : {<<>>},
          blankLine : {FALSE}, text : RawTexts]

\* the clipboard text of a scenario
ClipboardOf(sc) ==
    LET diff == RenderDiff(sc.sections) \o (IF sc.blankLine THEN NL ELSE "")
    IN  IF sc.kind = "raw" THEN sc.text
        ELSE IF sc.wrap = "heredoc"
        THEN "git apply --3way <<'EOF'\n" \o diff \o "\nEOF"
        ELSE IF sc.wrap = "subshell"
        THEN "(cd r && git apply <<EOF\n" \o diff \o "\nEOF\n)"
        ELSE diff \o NL

\* the lines of a hunk on the old side and on the new side of the diff
RECURSIVE SideLines(_, _)
SideLines(body, dropped) ==
    IF Len(body) = 0 THEN <<>>
    ELSE IF Ch(Head(body), 1) = dropped THEN SideLines(Tail(body), dropped)
    ELSE <<From(Head(body), 2)>> \o SideLines(Tail(body), dropped)

HunkNewLines(h) == SideLines(h.body, "-")

\* The new side of a diff over the old side, by the meaning of a hunk header
\* in the unified format: -s,c with c > 0 covers the old lines s..s+c-1, and
\* -s,0 stands between the old lines s and s+1.  The hunks of a diff are in
\* ascending order and do not overlap, so the last one is applied first.
RECURSIVE NewSide(_, _)
NewSide(old, hunks) ==
    IF Len(hunks) = 0 THEN old
    ELSE LET h    == hunks[Len(hunks)]
             keep == IF h.countOld = 0 THEN h.startOld ELSE h.startOld - 1
         IN  NewSide(SubSeq(old, 1, keep) \o h.newLines
                       \o SubSeq(old, keep + h.countOld + 1, Len(old)),
                     SubSeq(hunks, 1, Len(hunks) - 1))

\* the hunks of a section as the hunk records the applier takes
SectionHunkList(sec) ==
    [i \in 1..Len(sec.hunks) |->
        [startOld |-> sec.hunks[i].startOld, countOld |-> sec.hunks[i].countOld,
         startNew |-> sec.hunks[i].startNew, countNew |-> sec.hunks[i].countNew,
         newLines |-> HunkNewLines(sec.hunks[i])]]

SectionNewSide(sec) == NewSide(sec.old, SectionHunkList(sec))

\* the absolute path a section names, the way a shell in Cwd resolves it
SectionTarget(sec) == PathJoin(Cwd, sec.path)

(***************************************************************************)
(* The working trees and the refused paths a run starts from               *)
(***************************************************************************)
Trees == {"asDiff", "asDiffNL", "modified", "empty"}

\* write1, write2: writeFileSync is refused on the file of the first, the
\* second section; read1: readFileSync is refused on the file of the first
\* section; mkdir: a regular file stands where the directory of the last
\* section's file would be made
Faults == {"none", "write1", "write2", "read1", "mkdir"}

EmptyFiles == [q \in {} |-> ""]

\* the files of the sections that exist on the old side of the diff
RECURSIVE TreeFiles(_, _, _)
TreeFiles(sections, i, tree) ==
    IF i > Len(sections) \/ tree = "empty" THEN EmptyFiles
    ELSE LET sec  == sections[i]
             rest == TreeFiles(sections, i + 1, tree)
             text == Join(sec.old, NL)
         IN  IF ~sec.exists THEN rest
             ELSE WriteFile(rest, SectionTarget(sec),
                    IF tree = "asDiffNL" THEN text \o NL
                    ELSE IF tree = "modified" THEN "zz\n" \o text
                    ELSE text)

FaultPaths(sections, fault, kind) ==
    IF fault = kind \o "1" /\ Len(sections) >= 1 THEN {SectionTarget(sections[1])}
    ELSE IF fault = kind \o "2" /\ Len(sections) >= 2
    THEN {SectionTarget(sections[2])}
    ELSE {}

\* the directory the file of the last section goes into
LastDir(sections) ==
    IF Len(sections) = 0 THEN "/"
    ELSE Dirname(SectionTarget(sections[Len(sections)]))

StartFiles(sections, tree, fault) ==
    IF fault = "mkdir"
    THEN WriteFile(TreeFiles(sections, 1, tree), LastDir(sections), "")
    ELSE TreeFiles(sections, 1, tree)

\* the combinations that differ from one another
StartChoices(sc) ==
    {c \in Trees \X Faults :
        /\ sc.kind = "raw" => c = <<"empty", "none">>
        /\ c[2] = "write2" => Len(sc.sections) >= 2
        /\ c[2] = "read1" => c[1] # "empty"
        /\ c[2] = "mkdir" => LastDir(sc.sections) \notin {"/", Cwd}}

vars == <<files, dirs, unreadable, unwritable, clipboard, workspaceOpen,
          autoReset, forceOverwrite, pc, clipScript, shellResult, messages,
          trail, forceLog, filesBefore, scenario, diffDesc, diffText, parsed,
          oldLines, hunkList, calls, target, rawDesc, rawText, extracted,
          unfenced, blocks>>

NoDesc == [hunks |-> <<>>, newline |-> FALSE, followed |-> FALSE]

NoRaw == [cmd |-> "", regions |-> <<>>, ticks |-> 0, tag |-> ""]

\* the extraction functions are not called on their own
ExtractorIdle ==
    /\ rawDesc = NoRaw
    /\ rawText = ""
    /\ extracted = <<>>
    /\ unfenced = <<>>
    /\ blocks = <<>>

\* no function is called on its own
NothingAlone ==
    /\ diffDesc = NoDesc
    /\ diffText = ""
    /\ parsed = <<>>
    /\ oldLines = <<>>
    /\ hunkList = <<>>
    /\ calls = <<>>
    /\ target = ""
    /\ ExtractorIdle

Init ==
    /\ scenario \in Scenarios
    /\ clipboard = ClipboardOf(scenario)
    /\ \E c \in StartChoices(scenario) :
         /\ files = StartFiles(scenario.sections, c[1], c[2])
         /\ unwritable = FaultPaths(scenario.sections, c[2], "write")
         /\ unreadable = FaultPaths(scenario.sections, c[2], "read")
    /\ dirs = {"/", Cwd}
    /\ workspaceOpen \in BOOLEAN
    /\ autoReset \in BOOLEAN
    /\ forceOverwrite \in BOOLEAN
    /\ pc = "idle"
    /\ clipScript = ""
    /\ shellResult = ""
    /\ messages = <<>>
    /\ trail = <<>>
    /\ forceLog = NoForce
    /\ filesBefore = files
    /\ NothingAlone

Next ==
    \/ RunApply
    \/ Choice
    \/ ResetResolve
    \/ ResetReject
    \/ ShellResolve
    \/ ShellReject

Spec == Init /\ [][Next]_vars

\* the handler is not running
HandlerIdle ==
    /\ scenario = [kind |-> "raw", wrap |-> "bare", sections |-> <<>>,
                   blankLine |-> FALSE, text |-> ""]
    /\ clipboard = ""
    /\ workspaceOpen = TRUE
    /\ autoReset = FALSE
    /\ forceOverwrite = TRUE
    /\ pc = "idle"
    /\ clipScript = ""
    /\ shellResult = ""
    /\ messages = <<>>
    /\ trail = <<>>
    /\ forceLog = NoForce

handler == <<clipboard, workspaceOpen, autoReset, forceOverwrite, pc,
             clipScript, shellResult, messages, trail, forceLog, filesBefore,
             scenario>>

(***************************************************************************)
(* parseDiffToFileHunks on its own: one file section of N hunks, with or   *)
(* without a newline at the end of the text, last or followed by another   *)
(* section                                                                 *)
(***************************************************************************)
MaxParsedHunks == 2

\* hunks with well-formed headers: counts left out, counts given, an insertion
HeaderPool ==
    {H(1, 1, 1, 1, <<"-a", "+A">>, TRUE),
     H(1, 2, 1, 2, <<"-a", "+A", " b">>, FALSE),
     H(3, 1, 3, 1, <<"-c", "+C">>, TRUE),
     H(3, 0, 4, 1, <<"+n">>, FALSE)}

SeqsUpTo(pool, n) == UNION {[1..k -> pool] : k \in 1..n}

DiffDescs ==
    [hunks : SeqsUpTo(HeaderPool, MaxParsedHunks), newline : BOOLEAN,
     followed : BOOLEAN]

ParsedPath == "x"

DiffTextOf(d) ==
    RenderDiff(<<Sec(ParsedPath, TRUE, <<>>, d.hunks)>>
               \o (IF d.followed THEN <<SecZed>> ELSE <<>>))
      \o (IF d.newline THEN NL ELSE "")

ParserInit ==
    /\ diffDesc \in DiffDescs
    /\ diffText = DiffTextOf(diffDesc)
    /\ parsed = <<>>
    /\ oldLines = <<>>
    /\ hunkList = <<>>
    /\ calls = <<>>
    /\ target = ""
    /\ ExtractorIdle
    /\ files = EmptyFiles
    /\ filesBefore = EmptyFiles
    /\ dirs = {"/", Cwd}
    /\ unreadable = {}
    /\ unwritable = {}
    /\ HandlerIdle

Parse ==
    /\ parsed = <<>>
    /\ parsed' = <<parseDiffToFileHunks(diffText)>>
    /\ UNCHANGED <<files, dirs, unreadable, unwritable, handler, diffDesc,
                   diffText, oldLines, hunkList, calls, target, extractor>>

ParserNext == Parse

ParserSpec == ParserInit /\ [][ParserNext]_vars

(***************************************************************************)
(* applyHunksToFileAbs on its own: an existing file and the hunks of a     *)
(* diff made against its content, applied once and then once more          *)
(***************************************************************************)
MaxLines == 3

MaxHunks == 2

MaxNewLines == 2

MaxCalls == 2

PatchedPath == "/w/f"

OldLine(i) == "l" \o NumStr(i)

NewLine(i) == "n" \o NumStr(i)

OldFiles == {[i \in 1..n |-> OldLine(i)] : n \in 1..MaxLines}

\* what a hunk does to the old side: -s,c with c > 0 replaces the lines
\* s..s+c-1, -s,0 puts its lines between the lines s and s+1
Edits ==
    [startOld : 0..MaxLines, countOld : 0..MaxLines,
     newLines : {[i \in 1..n |-> NewLine(i)] : n \in 0..MaxNewLines}]

FirstTouched(e) == IF e.countOld = 0 THEN e.startOld + 1 ELSE e.startOld

LastTouched(e) == IF e.countOld = 0 THEN e.startOld ELSE e.startOld + e.countOld - 1

\* the edits a diff against a file of len lines can hold: inside the file,
\* not empty, in ascending order with an unchanged line between two of them
\* (a diff tool writes edits that touch as one hunk)
EditsOfDiff(es, len) ==
    /\ \A i \in 1..Len(es) :
         /\ es[i].countOld = 0 => Len(es[i].newLines) > 0
         /\ es[i].countOld > 0 => es[i].startOld >= 1
         /\ LastTouched(es[i]) <= len
    /\ \A i \in 1..(Len(es) - 1) :
         FirstTouched(es[i + 1]) > LastTouched(es[i]) + 1

\* lines the hunks before the i-th add to the file
RECURSIVE Shift(_, _)
Shift(es, i) ==
    IF i <= 1 THEN 0
    ELSE Shift(es, i - 1) + Len(es[i - 1].newLines) - es[i - 1].countOld

\* the hunk record of the i-th edit, with the new-side start a diff tool writes
HunkOfEdit(es, i) ==
    [startOld |-> es[i].startOld,
     countOld |-> es[i].countOld,
     startNew |-> IF Len(es[i].newLines) = 0
                  THEN es[i].startOld - 1 + Shift(es, i)
                  ELSE FirstTouched(es[i]) + Shift(es, i),
     countNew |-> Len(es[i].newLines),
     newLines |-> es[i].newLines]

HunkLists(len) ==
    {[i \in 1..Len(es) |-> HunkOfEdit(es, i)] :
        es \in {e \in SeqsUpTo(Edits, MaxHunks) : EditsOfDiff(e, len)}}

ApplierInit ==
    /\ oldLines \in OldFiles
    /\ hunkList \in HunkLists(Len(oldLines))
    /\ calls = <<>>
    /\ target = PatchedPath
    /\ ExtractorIdle
    /\ files = WriteFile(EmptyFiles, PatchedPath, Join(oldLines, NL))
    /\ filesBefore = files
    /\ dirs = {"/", Cwd}
    /\ unreadable = {}
    /\ unwritable \in {{}, {PatchedPath}}
    /\ diffDesc = NoDesc
    /\ diffText = ""
    /\ parsed = <<>>
    /\ HandlerIdle

\* the content of a file, Absent when there is no such file
Absent == "<absent>"

ContentOf(fileMap, path) ==
    IF path \in DOMAIN fileMap THEN fileMap[path] ELSE Absent

\* one call applyHunksToFileAbs(target, hunkList)
ApplyHunks ==
    /\ Len(calls) < MaxCalls
    /\ LET Called(r) ==
           /\ files' = r.files
           /\ dirs' = r.dirs
           /\ calls' = Append(calls, [threw |-> r.threw,
                                      content |-> ContentOf(r.files, target)])
       IN  Called(applyHunksToFileAbs(files, dirs, target, hunkList))
    /\ UNCHANGED <<unreadable, unwritable, handler, diffDesc, diffText, parsed,
                   oldLines, hunkList, target, extractor>>

ApplierNext == ApplyHunks

ApplierSpec == ApplierInit /\ [][ApplierNext]_vars

(***************************************************************************)
(* extractScriptFromClipboard and extractDiffBlocksFromScript on their     *)
(* own: a command or a script of heredoc regions, bare or inside a fenced  *)
(* block of three or more backticks with or without a language tag         *)
(***************************************************************************)
MaxTicks == 4

MaxRegions == 2

\* texts without a heredoc, among them blank ones and a fence that encloses
\* nothing
Commands ==
    {"", " ", "echo hi", "git apply p.diff", "(cd r && git apply p.diff)",
     "Command1:\n  git apply p.diff\necho done", "say\r\ngit apply p.diff\r\n",
     "###sh", "###\n \n###"}

\* heredoc bodies, line by line: one with a line that begins with the
\* terminator token
RegionPool ==
    {<<"a">>, <<"a", "EOFX", "b">>, <<"diff --git a/x b/x", "+n">>}

Tags == {"", "bash"}

RawDescs ==
    {d \in [cmd : Commands, regions : {<<>>}, ticks : {0} \cup 3..MaxTicks,
            tag : Tags]
           \cup [cmd : {"git apply"}, regions : SeqsUpTo(RegionPool, MaxRegions),
                 ticks : {0} \cup 3..MaxTicks, tag : Tags] :
        d.ticks = 0 => d.tag = ""}

\* the text of one heredoc region: the start marker with the quoted
\* terminator token, the body, the terminator on a line of its own
RegionText(cmd, body) == cmd \o " <<'EOF'\n" \o Join(body, NL) \o "\nEOF"

\* the text a fence encloses
EnclosedText(d) ==
    IF d.regions = <<>> THEN d.cmd
    ELSE Join([i \in 1..Len(d.regions) |-> RegionText(d.cmd, d.regions[i])], NL)

Ticks(n) == Join([i \in 1..n |-> Backtick], "")

\* the text as copied: the opening fence line with its tag, the enclosed
\* text, the matching closing fence
FencedText(d) ==
    IF d.ticks = 0 THEN EnclosedText(d)
    ELSE Ticks(d.ticks) \o d.tag \o NL \o EnclosedText(d) \o NL \o Ticks(d.ticks)

ExtractorInit ==
    /\ rawDesc \in RawDescs
    /\ rawText = FencedText(rawDesc)
    /\ extracted = <<>>
    /\ unfenced = <<>>
    /\ blocks = <<>>
    /\ diffDesc = NoDesc
    /\ diffText = ""
    /\ parsed = <<>>
    /\ oldLines = <<>>
    /\ hunkList = <<>>
    /\ calls = <<>>
    /\ target = ""
    /\ files = EmptyFiles
    /\ filesBefore = EmptyFiles
    /\ dirs = {"/", Cwd}
    /\ unreadable = {}
    /\ unwritable = {}
    /\ HandlerIdle

notExtractor == <<files, dirs, unreadable, unwritable, handler, diffDesc,
                  diffText, parsed, oldLines, hunkList, calls, target>>

\* extractScriptFromClipboard(rawText)
ExtractScript ==
    /\ extracted = <<>>
    /\ extracted' = <<extractScriptFromClipboard(rawText)>>
    /\ UNCHANGED <<notExtractor, rawDesc, rawText, unfenced, blocks>>

\* extractScriptFromClipboard on the text the fence encloses
ExtractEnclosed ==
    /\ rawDesc.ticks > 0
    /\ unfenced = <<>>
    /\ unfenced' = <<extractScriptFromClipboard(EnclosedText(rawDesc))>>
    /\ UNCHANGED <<notExtractor, rawDesc, rawText, extracted, blocks>>

\* extractDiffBlocksFromScript on the extracted script
ExtractBlocks ==
    /\ extracted # <<>>
    /\ blocks = <<>>
    /\ blocks' = <<extractDiffBlocksFromScript(extracted[1])>>
    /\ UNCHANGED <<notExtractor, rawDesc, rawText, extracted, unfenced>>

ExtractorNext ==
    \/ ExtractScript
    \/ ExtractEnclosed
    \/ ExtractBlocks

ExtractorSpec == ExtractorInit /\ [][ExtractorNext]_vars

(***************************************************************************)
(* applyHunksToFileAbs on its own, the hunks listed in any order: on an    *)
(* existing file with hunks whose old ranges lie in the file and do not    *)
(* overlap, and on a missing file, in the working directory or in a        *)
(* directory that does not exist yet                                       *)
(***************************************************************************)
NestedPath == "/w/d/f"

\* the i-th replacement line of the hunk -s,c +t
LineOf(s, c, t, i) ==
    "n" \o NumStr(s) \o NumStr(c) \o NumStr(t) \o "." \o NumStr(i)

\* the old lines a hunk replaces
OldRange(h) == h.startOld..(h.startOld + h.countOld - 1)

\* hunks on a file of len lines: a range inside the file, or no range and
\* lines to put in at a position of the file
RangeHunks(len) ==
    {[startOld |-> s, countOld |-> c, startNew |-> s, countNew |-> n,
      newLines |-> [i \in 1..n |-> LineOf(s, c, s, i)]] :
        s \in 0..(len + 1), c \in 0..len, n \in 0..MaxNewLines}

InFile(h, len) ==
    /\ h.countOld > 0 => (h.startOld >= 1 /\ h.startOld + h.countOld - 1 <= len)
    /\ h.countOld = 0 => h.countNew > 0

DisjointRanges(hunks) ==
    \A i, j \in 1..Len(hunks) :
        i # j => OldRange(hunks[i]) \cap OldRange(hunks[j]) = {}

ListedHunks(len) ==
    {hunks \in SeqsUpTo({h \in RangeHunks(len) : InFile(h, len)}, MaxHunks) :
        DisjointRanges(hunks)}

\* hunks of a file that does not exist yet
NewFileHunks ==
    {[startOld |-> 0, countOld |-> 0, startNew |-> t, countNew |-> n,
      newLines |-> [i \in 1..n |-> LineOf(0, 0, t, i)]] :
        t \in 1..MaxLines, n \in 0..MaxNewLines}

OrderInit ==
    /\ \/ /\ oldLines \in OldFiles
          /\ hunkList \in ListedHunks(Len(oldLines))
          /\ target = PatchedPath
          /\ files = WriteFile(EmptyFiles, target, Join(oldLines, NL))
       \/ /\ oldLines = <<>>
          /\ hunkList \in SeqsUpTo(NewFileHunks, MaxHunks)
          /\ target \in {PatchedPath, NestedPath}
          /\ files = EmptyFiles
    /\ calls = <<>>
    /\ filesBefore = files
    /\ dirs = {"/", Cwd}
    /\ unreadable = {}
    /\ unwritable = {}
    /\ diffDesc = NoDesc
    /\ diffText = ""
    /\ parsed = <<>>
    /\ ExtractorIdle
    /\ HandlerIdle

OrderSpec == OrderInit /\ [][ApplierNext]_vars

(***************************************************************************)
(* parseDiffToFileHunks on its own, for the bodies of the hunks: a first   *)
(* hunk whose body is any short list of lines of every kind, with or       *)
(* without a heading after the closing @@ of its header, alone or followed *)
(* by a second hunk                                                        *)
(***************************************************************************)
MaxBodyLines == 2

\* a context line, an added line, a removed line, the marker, a line without
\* prefix, an empty line, an added empty line
BodyLinePool ==
    {" c", "+A", "-a", "\\ No newline at end of file", "zz", "", "+"}

\* what git writes after the closing @@: nothing, or the heading of the
\* section the hunk is in
Headings == {"", " function foo()"}

BodyHunks ==
    {[startOld |-> 1, countOld |-> 2, startNew |-> 1, countNew |-> 2,
      body |-> b, bare |-> FALSE, heading |-> g] :
        b \in SeqsUpTo(BodyLinePool, MaxBodyLines), g \in Headings}

LastHunk == H(9, 1, 9, 1, <<"-z", "+Z">>, TRUE)

BodyDescs ==
    [hunks : {<<h>> : h \in BodyHunks} \cup {<<h, LastHunk>> : h \in BodyHunks},
     newline : BOOLEAN, followed : BOOLEAN]

BodyInit ==
    /\ diffDesc \in BodyDescs
    /\ diffText = DiffTextOf(diffDesc)
    /\ parsed = <<>>
    /\ oldLines = <<>>
    /\ hunkList = <<>>
    /\ calls = <<>>
    /\ target = ""
    /\ ExtractorIdle
    /\ files = EmptyFiles
    /\ filesBefore = EmptyFiles
    /\ dirs = {"/", Cwd}
    /\ unreadable = {}
    /\ unwritable = {}
    /\ HandlerIdle

BodySpec == BodyInit /\ [][ParserNext]_vars

(***************************************************************************)
(* The claims                                                              *)
(***************************************************************************)
ForcedDone == pc = "done" /\ forceLog.called

LastOf(seq) == seq[Len(seq)]

\* writeFileSync or mkdirSync is refused for the file at path
RaisesFsError(path) ==
    path \in unwritable \/ ~CanMkdir(filesBefore, Dirname(path))

FsErrorOf(path) ==
    IF ~CanMkdir(filesBefore, Dirname(path)) THEN "EEXIST " \o Dirname(path)
    ELSE "EACCES " \o path

\* a heredoc whose terminator line directly follows the last line of a
\* well-formed diff of one file, and a tree in which that file is as the old
\* side of the diff says, with no read, write or mkdir refused
HeredocOfOneFile ==
    /\ scenario.kind = "diff"
    /\ scenario.wrap = "heredoc"
    /\ ~scenario.blankLine
    /\ scenario.sections \in {<<SecOne>>, <<SecNew>>}
    /\ unwritable = {}
    /\ unreadable = {}
    /\ ~RaisesFsError(SectionTarget(scenario.sections[1]))
    /\ IF scenario.sections[1].exists
       THEN /\ SectionTarget(scenario.sections[1]) \in DOMAIN filesBefore
            /\ filesBefore[SectionTarget(scenario.sections[1])]
                 = Join(scenario.sections[1].old, NL)
       ELSE SectionTarget(scenario.sections[1]) \notin DOMAIN filesBefore

\* C1: after forced apply of a script whose heredoc holds a well-formed diff
\* of one file, the file holds the new side of the diff: an existing file with
\* the old side gets the new-side lines, a missing file described by one hunk
\* -0,0 +1,k is created with its k lines
C1_ForcedApplyLeavesNewSide ==
    (ForcedDone /\ HeredocOfOneFile) =>
        /\ SectionTarget(scenario.sections[1]) \in DOMAIN files
        /\ files[SectionTarget(scenario.sections[1])]
             = Join(SectionNewSide(scenario.sections[1]), NL)

\* C2: one call of applyHunksToFileAbs on an existing file with the hunks of
\* a diff made against its content (non-overlapping, countOld >= 0, pure
\* insertions included) leaves the lines of the new side of the diff
C2_RoundTrip ==
    (Len(calls) >= 1 /\ ~calls[1].threw) =>
        calls[1].content = Join(NewSide(oldLines, hunkList), NL)

ParsedHunks ==
    IF HasKey(parsed[1], ParsedPath) THEN HunksOf(parsed[1], ParsedPath) ELSE <<>>

\* C3: for a file section with N well-formed hunk headers (text ending with a
\* newline or not, section last or followed by another one) the parser
\* returns N hunks for the path, in the order of the diff, with the counts 1
\* where the header leaves them out
C3_ParserReturnsEveryHunk ==
    parsed # <<>> =>
        /\ Len(ParsedHunks) = Len(diffDesc.hunks)
        /\ \A i \in 1..Len(ParsedHunks) :
             /\ ParsedHunks[i].startOld = diffDesc.hunks[i].startOld
             /\ ParsedHunks[i].countOld = diffDesc.hunks[i].countOld
             /\ ParsedHunks[i].startNew = diffDesc.hunks[i].startNew
             /\ ParsedHunks[i].countNew = diffDesc.hunks[i].countNew

\* C4: the second call of applyHunksToFileAbs with the same hunks either
\* leaves the content the first call left or throws
C4_SecondApplicationNotSilent ==
    Len(calls) >= 2 =>
        calls[2].threw \/ calls[2].content = calls[1].content

\* the blocks extracted from the script hold no hunk at all
NoHunkIn(script) ==
    \A k \in 1..Len(extractDiffBlocksFromScript(script)) :
        \A i \in 1..Len(parseDiffToFileHunks(extractDiffBlocksFromScript(script)[k])) :
            Len(parseDiffToFileHunks(extractDiffBlocksFromScript(script)[k])[i].hunks) = 0

\* the clipboard text was written without any hunk
DescribesNoHunk ==
    \A i \in 1..Len(scenario.sections) : Len(scenario.sections[i].hunks) = 0

\* C5: when the forced path finds no diff block, or blocks without any hunk,
\* the invocation ends in Failed with the no-diff-payload error and
\* ForcedSuccess is not reported
C5_NoPayloadFails ==
    (ForcedDone /\ DescribesNoHunk /\ NoHunkIn(clipScript)) =>
        /\ trail = <<"Pending", "AttemptingForced", "Failed">>
        /\ messages = <<Msg("error", FailurePrefix \o NoBlocksError)>>

\* the first call of applyHunksToFileAbs whose write or mkdir is refused
FirstRefused ==
    MinOrZero({i \in 1..Len(forceLog.attempted) :
                  RaisesFsError(forceLog.attempted[i])})

\* C6: when the write or the mkdir of a target file is refused during forced
\* apply, the invocation ends in Failed with the message of that error, the
\* files written before it hold what was written, and ForcedSuccess is not
\* reported
C6_FsErrorEndsFailed ==
    (ForcedDone /\ FirstRefused # 0) =>
        /\ trail = <<"Pending", "AttemptingForced", "Failed">>
        /\ messages = <<Msg("error", FailurePrefix
                          \o FsErrorOf(forceLog.attempted[FirstRefused]))>>
        /\ Len(forceLog.written) = FirstRefused - 1
        /\ \A j \in 1..Len(forceLog.written) :
             /\ forceLog.written[j].path = forceLog.attempted[j]
             /\ forceLog.written[j].path \in DOMAIN files
             /\ files[forceLog.written[j].path] = forceLog.written[j].content

\* a file was rewritten with other content, then the write of the next one
\* was refused
C6_Witness ==
    /\ ForcedDone
    /\ Len(forceLog.written) = 1
    /\ Len(forceLog.attempted) = 2
    /\ forceLog.attempted[2] \in unwritable
    /\ forceLog.written[1].path \in DOMAIN filesBefore
    /\ files[forceLog.written[1].path] # filesBefore[forceLog.written[1].path]

TwoFilesOneHunkEach ==
    /\ scenario.kind = "diff"
    /\ Len(scenario.sections) = 2
    /\ \A i \in 1..2 : Len(scenario.sections[i].hunks) = 1

\* C7: for a payload of two files with one hunk each, forced apply calls the
\* applier for both files, and each file whose own write or mkdir is not
\* refused is among the written paths, whatever happens to the other file
C7_BothFilesMutated ==
    (ForcedDone /\ TwoFilesOneHunkEach) =>
        \A i \in 1..2 :
            /\ \E k \in 1..Len(forceLog.attempted) :
                 forceLog.attempted[k] = SectionTarget(scenario.sections[i])
            /\ ~RaisesFsError(SectionTarget(scenario.sections[i])) =>
                 \E k \in 1..Len(forceLog.written) :
                    forceLog.written[k].path = SectionTarget(scenario.sections[i])

InsideCwd(path) == HasAt(path, 1, Cwd \o "/")

\* C8: every file forced apply writes and every directory it makes lies
\* inside the working directory, also when a path of the diff holds ..
C8_WritesStayInside ==
    ForcedDone =>
        /\ \A k \in 1..Len(forceLog.written) : InsideCwd(forceLog.written[k].path)
        /\ \A q \in DOMAIN files \ DOMAIN filesBefore : InsideCwd(q)
        /\ \A d \in dirs \ {"/", Cwd} : InsideCwd(d)

\* C9: when the external run is rejected and forceOverwrite is off, the
\* invocation ends in Failed with the message of the error of the external
\* run, and the forced path is not entered: no AttemptingForced, no call of
\* forceOverwriteFromScript, the files as the external run left them
C9_FlagOffFails ==
    (shellResult \in ShellErrors /\ ~forceOverwrite) =>
        /\ pc = "done"
        /\ trail = <<"Pending", "Failed">>
        /\ messages = <<Msg("error", FailurePrefix \o shellResult)>>
        /\ forceLog = NoForce
        /\ files = filesBefore
        /\ dirs = {"/", Cwd}

\* the external run of a script that carries a diff was rejected, flag off
C9_Witness ==
    /\ pc = "done"
    /\ shellResult \in ShellErrors
    /\ ~forceOverwrite
    /\ Includes(clipScript, "diff --git")
    /\ LastOf(trail) = "Failed"

Terminal == {"CleanSuccess", "ForcedSuccess", "Failed"}

\* the outcome a notification reports
Reported(m) ==
    IF m = Msg("info", "Git apply completed.") THEN "CleanSuccess"
    ELSE IF m = Msg("info",
                "Force overwrite completed (files were directly rewritten, no .rej).")
    THEN "ForcedSuccess"
    ELSE IF m.level = "error" THEN "Failed"
    ELSE "none"

\* C10: once the external run of the script has returned, the invocation has
\* ended in exactly one of CleanSuccess, ForcedSuccess, Failed and has shown
\* exactly one notification, which reports that outcome; the outcome is
\* CleanSuccess exactly when the external run resolved, and ForcedSuccess
\* only after AttemptingForced, the run rejected and forceOverwrite on
C10_OneTerminalOutcome ==
    shellResult # "" =>
        /\ pc = "done"
        /\ Cardinality({i \in 1..Len(trail) : trail[i] \in Terminal}) = 1
        /\ LastOf(trail) \in Terminal
        /\ Len(messages) = 1
        /\ Reported(messages[1]) = LastOf(trail)
        /\ (LastOf(trail) = "CleanSuccess") <=> (shellResult = "resolved")
        /\ LastOf(trail) = "ForcedSuccess" =>
             /\ trail = <<"Pending", "AttemptingForced", "ForcedSuccess">>
             /\ shellResult \in ShellErrors
             /\ forceOverwrite

\* an invocation that ended in ForcedSuccess after a rejected external run
C10_Witness ==
    /\ pc = "done"
    /\ shellResult \in ShellErrors
    /\ trail = <<"Pending", "AttemptingForced", "ForcedSuccess">>
    /\ Len(forceLog.written) >= 1


\* C11: for every input wrapped in a fenced block (an opening line of three
\* or more backticks with an optional language tag and a matching closing
\* fence), extractScriptFromClipboard returns what it returns for the
\* enclosed text given without the fence
C11_FenceIsTransparent ==
    (extracted # <<>> /\ unfenced # <<>>) => extracted[1] = unfenced[1]

IsBlank(s) == \A i \in 1..Len(s) : IsSpace(Ch(s, i))

\* C12: extractScriptFromClipboard returns the empty string only if its input
\* is empty or whitespace only; an input with a character that is not
\* whitespace yields a script that is not empty
C12_EmptyOnlyForBlank ==
    extracted # <<>> => (extracted[1] = "" <=> IsBlank(rawText))

\* the text, trimmed, begins with three backticks, and nothing but whitespace
\* is left of it without its first line and without three closing backticks
OnlyFence(text) ==
    LET Inside(rest) ==
            IsBlank(IF HasAt(rest, Len(rest) - 2, Fence)
                    THEN SubSeq(rest, 1, Len(rest) - 3) ELSE rest)
        Opened(t) ==
            /\ HasAt(t, 1, Fence)
            /\ Inside(IF \E i \in 1..Len(t) : Ch(t, i) = NL
                      THEN From(t, 1 + CHOOSE i \in 1..Len(t) :
                                         /\ Ch(t, i) = NL
                                         /\ \A j \in 1..(i - 1) : Ch(t, j) # NL)
                      ELSE "")
    IN  Opened(Trim(ReplaceCRLF(text)))

\* C12 as amended: the result is empty exactly when the input is blank or is
\* nothing but a fence around blank text
C12_EmptyOnlyForBlankOrFence ==
    extracted # <<>> =>
        (extracted[1] = "" <=> (IsBlank(rawText) \/ OnlyFence(rawText)))

C12_Witness ==
    /\ extracted = <<"">>
    /\ ~IsBlank(rawText)
    /\ OnlyFence(rawText)

\* C13: extractDiffBlocksFromScript returns, in order of appearance, exactly
\* one block per heredoc region of the script, each block being the text from
\* the line after the start marker up to the first following line that
\* consists solely of the terminator token; a body line that only begins
\* with the token (EOFX) does not end the block
C13_OneBlockPerRegion ==
    (blocks # <<>> /\ rawDesc.regions # <<>>) =>
        blocks[1] = [i \in 1..Len(rawDesc.regions) |->
                        Join(rawDesc.regions[i], NL)]


Perms(n) == {f \in [1..n -> 1..n] : \A i, j \in 1..n : f[i] = f[j] => i = j}

\* the lines of the hunks, taken in the order perm
RECURSIVE LinesInOrder(_, _, _)
LinesInOrder(hunks, perm, i) ==
    IF i > Len(hunks) THEN <<>>
    ELSE hunks[perm[i]].newLines \o LinesInOrder(hunks, perm, i + 1)

AscendingStartNew(hunks, perm) ==
    \A i \in 1..(Len(hunks) - 1) :
        hunks[perm[i]].startNew <= hunks[perm[i + 1]].startNew

MissingFileCalled == Len(calls) >= 1 /\ target \notin DOMAIN filesBefore

\* C14: when the target file does not exist, applyHunksToFileAbs creates it,
\* and its missing parent directories, with the replacement lines of the
\* hunks in ascending startNew order as content, whatever the order in which
\* the hunks are listed
C14_MissingFileSynthesized ==
    MissingFileCalled =>
        /\ ~calls[1].threw
        /\ Ancestors(Dirname(target)) \subseteq dirs
        /\ \E perm \in Perms(Len(hunkList)) :
             /\ AscendingStartNew(hunkList, perm)
             /\ calls[1].content = Join(LinesInOrder(hunkList, perm, 1), NL)

C14_Witness ==
    /\ MissingFileCalled
    /\ target = NestedPath
    /\ Len(hunkList) = 2
    /\ hunkList[1].startNew > hunkList[2].startNew
    /\ hunkList[1].countNew > 0
    /\ hunkList[2].countNew > 0
    /\ calls[1].content = Join(hunkList[2].newLines \o hunkList[1].newLines, NL)

\* the hunks that start at the old line p, those without a range first
RECURSIVE StartingAt(_, _, _, _)
StartingAt(hunks, p, ranged, i) ==
    IF i > Len(hunks) THEN <<>>
    ELSE (IF hunks[i].startOld = p /\ (hunks[i].countOld > 0) = ranged
          THEN hunks[i].newLines ELSE <<>>)
           \o StartingAt(hunks, p, ranged, i + 1)

\* every old range replaced by the lines of its hunk at once, from the old
\* line p on: the lines of the hunks that start at p, then the old line p
\* unless a range holds it
RECURSIVE Simultaneous(_, _, _)
Simultaneous(old, hunks, p) ==
    IF p > Len(old) + 1 THEN <<>>
    ELSE StartingAt(hunks, p, FALSE, 1) \o StartingAt(hunks, p, TRUE, 1)
           \o (IF p \in 1..Len(old)
                  /\ \A i \in 1..Len(hunks) : p \notin OldRange(hunks[i])
               THEN <<old[p]>> ELSE <<>>)
           \o Simultaneous(old, hunks, p + 1)

\* the file as it stands when the k-th hunk of the descending order is spliced
BeforeSplice(k) ==
    SpliceAll(oldLines, SubSeq(SortByStartOldDesc(hunkList), 1, k - 1))

\* below the place of the hunk about to be spliced, the lines are the
\* original ones
LinesBelowUntouched ==
    \A k \in 1..Len(hunkList) :
        LET Below(h, lines) ==
                \A i \in 1..(h.startOld - 1) :
                    i <= Len(oldLines) => (i <= Len(lines) /\ lines[i] = oldLines[i])
        IN  Below(SortByStartOldDesc(hunkList)[k], BeforeSplice(k))

ExistingFileCalled == Len(calls) >= 1 /\ target \in DOMAIN filesBefore

\* C15: on an existing file the hunks are spliced in descending startOld
\* order, so when a hunk is spliced every line below its startOld - 1 is still
\* the original one, and for hunks with pairwise disjoint old ranges the
\* result is every original range [startOld, startOld + countOld) replaced by
\* the lines of its hunk at once, whatever the order of the list (hunks
\* that start at the same line taken in the order that suits)
C15_OffsetStability ==
    (ExistingFileCalled /\ DisjointRanges(hunkList)) =>
        /\ LinesBelowUntouched
        /\ \E perm \in Perms(Len(hunkList)) :
             calls[1].content =
                 Join(Simultaneous(oldLines,
                                   [i \in 1..Len(hunkList) |-> hunkList[perm[i]]],
                                   0), NL)

\* no hunk starts where another starts or inside the range of another
StartsApart(hunks) ==
    \A i, j \in 1..Len(hunks) :
        i # j => /\ hunks[i].startOld # hunks[j].startOld
                 /\ hunks[i].startOld \notin OldRange(hunks[j])

\* C15 as amended: the same, for hunks none of which starts where another
\* starts or inside the range of another
C15_OffsetStabilityApart ==
    (ExistingFileCalled /\ DisjointRanges(hunkList) /\ StartsApart(hunkList)) =>
        /\ LinesBelowUntouched
        /\ calls[1].content = Join(Simultaneous(oldLines, hunkList, 0), NL)

C15_Witness ==
    /\ ExistingFileCalled
    /\ Len(hunkList) = 2
    /\ StartsApart(hunkList)
    /\ hunkList[1].startOld < hunkList[2].startOld
    /\ hunkList[1].countOld > 0
    /\ hunkList[1].countNew # hunkList[1].countOld
    /\ hunkList[2].countOld > 0
    /\ calls[1].content = Join(Simultaneous(oldLines, hunkList, 0), NL)
    /\ calls[1].content # Join(oldLines, NL)


\* the forced apply came to files that exist and whose read is refused
ReadRefused ==
    {forceLog.attempted[i] : i \in 1..Len(forceLog.attempted)}
        \cap DOMAIN filesBefore \cap unreadable

\* C16: when the read of an existing target file fails for a reason other
\* than the file not existing, the mutation of that file is aborted (the
\* file is not written) and the failure reaches the caller: the invocation
\* ends in Failed
C16_ReadFailureAborts ==
    (ForcedDone /\ ReadRefused # {}) =>
        /\ \A path \in ReadRefused : files[path] = filesBefore[path]
        /\ LastOf(trail) = "Failed"


\* the run ended in CleanSuccess, or in Failed with the flag off
EndedWithoutForce ==
    /\ pc = "done"
    /\ Len(trail) > 0
    /\ \/ LastOf(trail) = "CleanSuccess"
       \/ LastOf(trail) = "Failed" /\ ~forceOverwrite

\* C18: the core writes no file unless the external run failed and the flag
\* is on: in every run that ends in CleanSuccess, and in every run that ends
\* in Failed with the flag off, forceOverwriteFromScript is never called and
\* the working tree is as the external run left it
C18_NoWriteWithoutForce ==
    EndedWithoutForce =>
        /\ forceLog = NoForce
        /\ files = filesBefore
        /\ dirs = {"/", Cwd}

\* the external run of a script that carries a diff changed a file and
\* resolved
C18_Witness ==
    /\ EndedWithoutForce
    /\ LastOf(trail) = "CleanSuccess"
    /\ Includes(clipScript, "diff --git")
    /\ TouchedPath \in DOMAIN files
    /\ files[TouchedPath] = "ext"


\* what the lines of a body leave on the new side, line by line
RECURSIVE ReplacementLines(_)
ReplacementLines(body) ==
    IF Len(body) = 0 THEN <<>>
    ELSE (IF Head(body) = "" THEN <<>>
          ELSE IF Ch(Head(body), 1) \in {" ", "+"} THEN <<From(Head(body), 2)>>
          ELSE IF Ch(Head(body), 1) = "-" THEN <<>>
          ELSE IF Head(body) = "\\ No newline at end of file" THEN <<>>
          ELSE <<Head(body)>>)
           \o ReplacementLines(Tail(body))

\* C17: the replacement lines of a hunk are exactly, in body order, every
\* body line that begins with a space or a plus without that character and
\* every other line that is not empty, not a removed line and not the
\* no-newline marker as it is; removed lines, the marker and empty lines give
\* no replacement line
C17_ReplacementLinesOfBody ==
    parsed # <<>> =>
        \A k \in 1..Len(ParsedHunks) :
            ParsedHunks[k].newLines = ReplacementLines(diffDesc.hunks[k].body)

\* C19: the text after the closing @@ on the header line is never a
\* replacement line: a hunk has as many replacement lines as its body has
\* kept lines
C19_HeadingIsNoReplacementLine ==
    parsed # <<>> =>
        \A k \in 1..Len(ParsedHunks) :
            diffDesc.hunks[k].heading # "" =>
                /\ Len(ParsedHunks[k].newLines)
                     = Len(ReplacementLines(diffDesc.hunks[k].body))
                /\ \A j \in 1..Len(ParsedHunks[k].newLines) :
                     ParsedHunks[k].newLines[j] # Trim(diffDesc.hunks[k].heading)

====
